---- MODULE Spec2Model ----
(***************************************************************************)
(* Model of BlueRaster_Interview_Conda3_9/main.py: a four-stage batch      *)
(* pipeline (fetch fire data, fetch country boundaries, spatial filter,    *)
(* publish to a GIS portal) run under one top-level try/except.            *)
(*                                                                         *)
(* Geometry is modelled on an integer grid: a fire point is <<lon, lat>>,  *)
(* a country polygon is an axis-aligned rectangle.  The library calls are  *)
(* modelled by their documented behaviour: pandas isin, geopandas sjoin    *)
(* (how="inner", predicate="within"), requests raise_for_status, and the   *)
(* portal's search / overwrite / to_featurelayer.                          *)
(***************************************************************************)
EXTENDS Integers, Sequences, FiniteSets, TLC

VARIABLES pc, stdout, fire_csv, countries_geojson, status_code,
          fire_gdf, countries_gdf, filtered_gdf,
          existing_items, portal, portal_calls, run,
          portal_before, prev_run

vars == <<pc, stdout, fire_csv, countries_geojson, status_code,
          fire_gdf, countries_gdf, filtered_gdf,
          existing_items, portal, portal_calls, run,
          portal_before, prev_run>>

----------------------------------------------------------------------------
(* Bounds *)

MaxFires == 2
MaxCountries == 2
RunFires == 1
RunCountries == 1
MaxItems == 2
MaxRuns == 2

----------------------------------------------------------------------------
(* Constants of main.py *)

COUNTRIES_TO_KEEP == <<"Brazil", "Peru", "Bolivia">>

ITEM_TITLE == "Filtered Fire Data - Brazil, Peru, Bolivia"

----------------------------------------------------------------------------
(* Input pools *)

SimilarTitle == "Filtered Fire Data - Brazil, Peru, Bolivia (2023)"

NamePool == {"Brazil", "Peru", "Bolivia", "brazil", "Chile"}

\* rows of the fire CSV: latitude / longitude columns
FireRowPool ==
    { [latitude |-> 2, longitude |-> 1],
      [latitude |-> 2, longitude |-> 3],
      [latitude |-> 2, longitude |-> 4],
      [latitude |-> 2, longitude |-> 9] }

\* rectangles: RectA and RectB overlap, RectA and RectC share the edge x = 4
RectA == [x1 |-> 0, x2 |-> 4, y1 |-> 0, y2 |-> 4]

RectB == [x1 |-> 2, x2 |-> 6, y1 |-> 0, y2 |-> 4]

RectC == [x1 |-> 4, x2 |-> 8, y1 |-> 0, y2 |-> 4]

RectPool == {RectA, RectB, RectC}

FeaturePool == [COUNTRY : NamePool, geometry : RectPool]

\* the smaller pools the whole-pipeline runs draw from
RunFireRowPool ==
    { [latitude |-> 2, longitude |-> 3],
      [latitude |-> 2, longitude |-> 9] }

RunFeaturePool ==
    { [COUNTRY |-> "Brazil", geometry |-> RectA],
      [COUNTRY |-> "Chile", geometry |-> RectB] }

StatusPool == {200, 404, 500}

SeqsUpTo(S, n) == UNION { [1..k -> S] : k \in 0..n }

\* data a layer held before the first run
StaleData == << [idx |-> 0, latitude |-> 0, longitude |-> 0,
                 COUNTRY |-> "stale",
                 SHAPE |-> [x |-> 0, y |-> 0, wkid |-> 4326]] >>

\* an exactly titled layer, a similarly titled layer, and an exactly titled
\* item of another type
ItemPool ==
    { [title |-> ITEM_TITLE, type |-> "Feature Layer", data |-> StaleData],
      [title |-> SimilarTitle, type |-> "Feature Layer", data |-> StaleData],
      [title |-> ITEM_TITLE, type |-> "Web Map", data |-> StaleData] }

----------------------------------------------------------------------------
(* Messages printed by main.py *)

MsgFetchFire == "Fetching fire data..."

MsgFetchCountries == "Fetching country boundaries..."

MsgFiltering == "Filtering fire data..."

MsgFiltered == "Filtered n fire records."

MsgPublishing == "Publishing to ArcGIS Online..."

MsgUpdating == "Updating existing layer..."

MsgCreating == "Creating a new feature layer..."

MsgPublishComplete == "Publishing complete!"

MsgSuccess == "Process completed successfully!"

MsgError == "Error: e"

----------------------------------------------------------------------------
(* Pure functions *)

RECURSIVE SelectRows(_, _)
SelectRows(s, keep) ==
    IF s = <<>> THEN <<>>
    ELSE IF keep[1] THEN <<Head(s)>> \o SelectRows(Tail(s), Tail(keep))
         ELSE SelectRows(Tail(s), Tail(keep))

Range(s) == { s[i] : i \in DOMAIN s }

\* fire_df.apply(lambda row: Point(row["longitude"], row["latitude"]))
PointOf(row) == <<row.longitude, row.latitude>>

\* pd.read_csv + geometry column + GeoDataFrame; idx is the row label
ToFireGdf(csv) ==
    [i \in DOMAIN csv |->
        [idx |-> i, latitude |-> csv[i].latitude,
         longitude |-> csv[i].longitude, geometry |-> PointOf(csv[i])]]

Capitalized(name) == IF name = "brazil" THEN "Brazil" ELSE name

\* variant: membership that ignores the case of the first letter
IsInIgnoreCase(name, values) ==
    \E k \in DOMAIN values : values[k] = Capitalized(name)

\* Series.isin(COUNTRIES_TO_KEEP): exact, case-sensitive membership
IsIn(name, values) == \E k \in DOMAIN values : values[k] = name

\* world_gdf[world_gdf["COUNTRY"].isin(COUNTRIES_TO_KEEP)]
KeepCountries(world_gdf) ==
    SelectRows(world_gdf,
               [i \in DOMAIN world_gdf |->
                   IsIn(world_gdf[i].COUNTRY, COUNTRIES_TO_KEEP)])

\* variant: only server errors raise
RaisesForStatusServerOnly(status) == 500 <= status /\ status < 600

\* response.raise_for_status(): raises for 4xx and 5xx
RaisesForStatus(status) == 400 <= status /\ status < 600

\* variant: predicate="intersects", the edge counts
WithinOrOnEdge(p, poly) ==
    /\ poly.x1 <= p[1] /\ p[1] <= poly.x2
    /\ poly.y1 <= p[2] /\ p[2] <= poly.y2

\* predicate="within": the point lies in the interior of the polygon
Within(p, poly) ==
    /\ poly.x1 < p[1] /\ p[1] < poly.x2
    /\ poly.y1 < p[2] /\ p[2] < poly.y2

\* rows of the inner join for one left row: one per matching right row
JoinRow(f, right, j) ==
    [idx |-> f.idx, latitude |-> f.latitude, longitude |-> f.longitude,
     geometry |-> f.geometry, index_right |-> j, COUNTRY |-> right[j].COUNTRY]

RECURSIVE MatchesFrom(_, _, _)
MatchesFrom(f, right, j) ==
    IF j > Len(right) THEN <<>>
    ELSE IF Within(f.geometry, right[j].geometry)
         THEN <<JoinRow(f, right, j)>> \o MatchesFrom(f, right, j + 1)
         ELSE MatchesFrom(f, right, j + 1)

\* gpd.sjoin(left, right, how="inner", predicate="within")
RECURSIVE SJoin(_, _)
SJoin(left, right) ==
    IF left = <<>> THEN <<>>
    ELSE MatchesFrom(Head(left), right, 1) \o SJoin(Tail(left), right)

\* .drop(columns=["index_right"])
DropIndexRight(rows) ==
    [i \in DOMAIN rows |->
        [idx |-> rows[i].idx, latitude |-> rows[i].latitude,
         longitude |-> rows[i].longitude, geometry |-> rows[i].geometry,
         COUNTRY |-> rows[i].COUNTRY]]

filter_fire_data(fire, countries) == DropIndexRight(SJoin(fire, countries))

----------------------------------------------------------------------------
(* Portal operations *)

\* keywords the portal's text index holds for a title / extracts from a query
Words(t) ==
    IF t = ITEM_TITLE
      THEN {"Filtered", "Fire", "Data", "Brazil", "Peru", "Bolivia"}
    ELSE IF t = SimilarTitle
      THEN {"Filtered", "Fire", "Data", "Brazil", "Peru", "Bolivia", "2023"}
    ELSE {t}

\* gis.content.search(query, item_type=...): a keyword query, filtered by type
SearchHit(item, query, item_type) ==
    /\ item.type = item_type
    /\ Words(query) \subseteq Words(item.title)

SearchHits(p, query, item_type) ==
    { i \in DOMAIN p : SearchHit(p[i], query, item_type) }

\* the orders in which the portal may return a set of hits
Orderings(S) ==
    { s \in [1..Cardinality(S) -> S] :
        \A i, j \in DOMAIN s : i # j => s[i] # s[j] }

\* GeoAccessor.from_geodataframe: the geometry column becomes SHAPE
FromGeodataframe(rows) ==
    [i \in DOMAIN rows |->
        [idx |-> rows[i].idx, latitude |-> rows[i].latitude,
         longitude |-> rows[i].longitude, COUNTRY |-> rows[i].COUNTRY,
         SHAPE |-> [x |-> rows[i].geometry[1], y |-> rows[i].geometry[2],
                    wkid |-> 4326]]]

\* variant: the last returned item
LastItem(items) == items[Len(items)]

\* item = existing_items[0]
FirstItem(items) == items[1]

\* flc.manager.overwrite(sdf): the item keeps its identity, its data change
Overwrite(p, id, sdf) == [p EXCEPT ![id].data = sdf]

\* sdf.spatial.to_featurelayer(title=ITEM_TITLE, gis=gis): a new item
ToFeaturelayer(p, title, sdf) ==
    Append(p, [title |-> title, type |-> "Feature Layer", data |-> sdf])

\* the feature layers titled exactly ITEM_TITLE
TargetLayers(p) ==
    { i \in DOMAIN p :
        p[i].title = ITEM_TITLE /\ p[i].type = "Feature Layer" }

\* portals before the first run: the title is the published layer's key, so
\* at most one layer carries it; other items are arbitrary
InitialPortals ==
    { p \in SeqsUpTo(ItemPool, MaxItems) : Cardinality(TargetLayers(p)) <= 1 }

\* outcome of the previous run of the script, if any
NoRun == [ok |-> FALSE, data |-> <<>>]

\* ok: the call took effect (it neither raised nor reported a failure)
Call(op, item, ok) == [op |-> op, item |-> item, ok |-> ok]

----------------------------------------------------------------------------
(* State *)

Init ==
    /\ pc = "start"
    /\ stdout = <<>>
    /\ fire_csv \in SeqsUpTo(RunFireRowPool, RunFires)
    /\ countries_geojson \in SeqsUpTo(RunFeaturePool, RunCountries)
    /\ status_code = 0
    /\ fire_gdf = <<>>
    /\ countries_gdf = <<>>
    /\ filtered_gdf = <<>>
    /\ existing_items = <<>>
    /\ portal \in InitialPortals
    /\ portal_calls = <<>>
    /\ run = 1
    /\ portal_before = portal
    /\ prev_run = NoRun

\* inputs of the two pure stages drawn from the larger pools, empty portal
InitFilter ==
    /\ pc = "start"
    /\ stdout = <<>>
    /\ fire_csv \in SeqsUpTo(FireRowPool, MaxFires)
    /\ countries_geojson \in SeqsUpTo(FeaturePool, MaxCountries)
    /\ status_code = 0
    /\ fire_gdf = <<>>
    /\ countries_gdf = <<>>
    /\ filtered_gdf = <<>>
    /\ existing_items = <<>>
    /\ portal = <<>>
    /\ portal_calls = <<>>
    /\ run = 1
    /\ portal_before = portal
    /\ prev_run = NoRun

\* except Exception as e: print(f"Error: {e}")
Except(printed) ==
    /\ pc' = "error"
    /\ stdout' = stdout \o printed \o <<MsgError>>

Env == <<fire_csv, countries_geojson, run, portal_before, prev_run>>

----------------------------------------------------------------------------
(* Stage 1: fetch_fire_data *)

FetchFireData ==
    /\ pc = "start"
    /\ pc' = "fire"
    /\ stdout' = Append(stdout, MsgFetchFire)
    /\ fire_gdf' = ToFireGdf(fire_csv)
    /\ UNCHANGED <<Env, status_code, countries_gdf, filtered_gdf,
                   existing_items, portal, portal_calls>>

\* variant: the failure is reported but the run goes on
FetchFireDataSwallowed ==
    /\ pc = "start"
    /\ pc' = "fire"
    /\ stdout' = stdout \o <<MsgFetchFire, MsgError>>
    /\ UNCHANGED <<Env, status_code, fire_gdf, countries_gdf, filtered_gdf,
                   existing_items, portal, portal_calls>>

\* pd.read_csv raises (network failure, unparsable body, missing column)
FetchFireDataRaises ==
    /\ pc = "start"
    /\ Except(<<MsgFetchFire>>)
    /\ UNCHANGED <<Env, status_code, fire_gdf, countries_gdf, filtered_gdf,
                   existing_items, portal, portal_calls>>

(* Stage 2: fetch_country_boundaries *)

FetchCountryBoundaries ==
    /\ pc = "fire"
    /\ \E status \in StatusPool :
        /\ status_code' = status
        /\ IF RaisesForStatus(status)
             THEN /\ Except(<<MsgFetchCountries>>)
                  /\ UNCHANGED countries_gdf
             ELSE /\ pc' = "countries"
                  /\ stdout' = Append(stdout, MsgFetchCountries)
                  /\ countries_gdf' = KeepCountries(countries_geojson)
    /\ UNCHANGED <<Env, fire_gdf, filtered_gdf, existing_items, portal,
                   portal_calls>>

\* requests.get raises (no response) or gpd.read_file raises
FetchCountryBoundariesRaises ==
    /\ pc = "fire"
    /\ Except(<<MsgFetchCountries>>)
    /\ UNCHANGED <<Env, status_code, fire_gdf, countries_gdf, filtered_gdf,
                   existing_items, portal, portal_calls>>

(* Stage 3: filter_fire_data, then main prints the record count *)

FilterFireData ==
    /\ pc = "countries"
    /\ pc' = "filtered"
    /\ filtered_gdf' = filter_fire_data(fire_gdf, countries_gdf)
    /\ stdout' = stdout \o <<MsgFiltering, MsgFiltered>>
    /\ UNCHANGED <<Env, status_code, fire_gdf, countries_gdf,
                   existing_items, portal, portal_calls>>

\* gpd.sjoin raises (ill-formed geometry, reserved column name)
FilterFireDataRaises ==
    /\ pc = "countries"
    /\ Except(<<MsgFiltering>>)
    /\ UNCHANGED <<Env, status_code, fire_gdf, countries_gdf, filtered_gdf,
                   existing_items, portal, portal_calls>>

(* Stage 4: publish_to_arcgis *)

\* gis = GIS(PORTAL_URL, USERNAME, PASSWORD); sdf = from_geodataframe(...)
PublishConnect ==
    /\ pc = "filtered"
    /\ pc' = "connected"
    /\ stdout' = Append(stdout, MsgPublishing)
    /\ portal_calls' = Append(portal_calls, Call("GIS", 0, TRUE))
    /\ UNCHANGED <<Env, status_code, fire_gdf, countries_gdf, filtered_gdf,
                   existing_items, portal>>

PublishConnectRaises ==
    /\ pc = "filtered"
    /\ Except(<<MsgPublishing>>)
    /\ portal_calls' = Append(portal_calls, Call("GIS", 0, FALSE))
    /\ UNCHANGED <<Env, status_code, fire_gdf, countries_gdf, filtered_gdf,
                   existing_items, portal>>

\* existing_items = gis.content.search(ITEM_TITLE, item_type="Feature Layer")
PublishSearch ==
    /\ pc = "connected"
    /\ pc' = "searched"
    /\ existing_items' \in
           Orderings(SearchHits(portal, ITEM_TITLE, "Feature Layer"))
    /\ portal_calls' = Append(portal_calls, Call("search", 0, TRUE))
    /\ UNCHANGED <<Env, stdout, status_code, fire_gdf, countries_gdf,
                   filtered_gdf, portal>>

PublishSearchRaises ==
    /\ pc = "connected"
    /\ Except(<<>>)
    /\ portal_calls' = Append(portal_calls, Call("search", 0, FALSE))
    /\ UNCHANGED <<Env, status_code, fire_gdf, countries_gdf, filtered_gdf,
                   existing_items, portal>>

\* if existing_items: overwrite the first one; then both completion prints
PublishOverwrite ==
    /\ pc = "searched"
    /\ existing_items # <<>>
    /\ pc' = "done"
    /\ portal' = Overwrite(portal, FirstItem(existing_items),
                           FromGeodataframe(filtered_gdf))
    /\ portal_calls' = Append(portal_calls,
                          Call("overwrite", FirstItem(existing_items), TRUE))
    /\ stdout' = stdout \o <<MsgUpdating, MsgPublishComplete, MsgSuccess>>
    /\ UNCHANGED <<Env, status_code, fire_gdf, countries_gdf, filtered_gdf,
                   existing_items>>

\* line 70 discards what overwrite returns: when the call reports a failure
\* without raising, the layer is unchanged and both completion prints follow
PublishOverwriteNoEffect ==
    /\ pc = "searched"
    /\ existing_items # <<>>
    /\ pc' = "done"
    /\ portal_calls' = Append(portal_calls,
                          Call("overwrite", FirstItem(existing_items), FALSE))
    /\ stdout' = stdout \o <<MsgUpdating, MsgPublishComplete, MsgSuccess>>
    /\ UNCHANGED <<Env, status_code, fire_gdf, countries_gdf, filtered_gdf,
                   existing_items, portal>>

PublishOverwriteRaises ==
    /\ pc = "searched"
    /\ existing_items # <<>>
    /\ Except(<<MsgUpdating>>)
    /\ portal_calls' = Append(portal_calls,
                          Call("overwrite", FirstItem(existing_items), FALSE))
    /\ UNCHANGED <<Env, status_code, fire_gdf, countries_gdf, filtered_gdf,
                   existing_items, portal>>

\* else: create a new feature layer; then both completion prints
PublishCreate ==
    /\ pc = "searched"
    /\ ~ (existing_items # <<>>)
    /\ pc' = "done"
    /\ portal' = ToFeaturelayer(portal, ITEM_TITLE,
                                FromGeodataframe(filtered_gdf))
    /\ portal_calls' = Append(portal_calls,
                              Call("create", Len(portal) + 1, TRUE))
    /\ stdout' = stdout \o <<MsgCreating, MsgPublishComplete, MsgSuccess>>
    /\ UNCHANGED <<Env, status_code, fire_gdf, countries_gdf, filtered_gdf,
                   existing_items>>

PublishCreateRaises ==
    /\ pc = "searched"
    /\ ~ (existing_items # <<>>)
    /\ Except(<<MsgCreating>>)
    /\ portal_calls' = Append(portal_calls, Call("create", 0, FALSE))
    /\ UNCHANGED <<Env, status_code, fire_gdf, countries_gdf, filtered_gdf,
                   existing_items, portal>>

(* The script is started again: a new process against the same portal and *)
(* the same remote data                                                   *)

Restart ==
    /\ pc \in {"done", "error"}
    /\ run < MaxRuns
    /\ run' = run + 1
    /\ pc' = "start"
    /\ stdout' = <<>>
    /\ status_code' = 0
    /\ fire_gdf' = <<>>
    /\ countries_gdf' = <<>>
    /\ filtered_gdf' = <<>>
    /\ existing_items' = <<>>
    /\ portal_calls' = <<>>
    /\ portal_before' = portal
    /\ prev_run' = [ok |-> pc = "done", data |-> filtered_gdf]
    /\ UNCHANGED <<portal, fire_csv, countries_geojson>>

----------------------------------------------------------------------------
(* Specifications *)

Stages ==
    \/ FetchFireData
    \/ FetchFireDataRaises
    \/ FetchCountryBoundaries
    \/ FetchCountryBoundariesRaises
    \/ FilterFireData
    \/ FilterFireDataRaises

Publisher ==
    \/ PublishConnect
    \/ PublishConnectRaises
    \/ PublishSearch
    \/ PublishSearchRaises
    \/ PublishOverwrite
    \/ PublishOverwriteNoEffect
    \/ PublishOverwriteRaises
    \/ PublishCreate
    \/ PublishCreateRaises

Next == Stages \/ Publisher \/ Restart

Spec == Init /\ [][Next]_vars

NextFilter == Stages

SpecFilter == InitFilter /\ [][NextFilter]_vars

\* every blocking call of a run eventually returns or raises
SpecLive == Spec /\ WF_vars(Stages \/ Publisher)

----------------------------------------------------------------------------
(* Vocabulary of the properties *)

Printed(msg) == \E k \in DOMAIN stdout : stdout[k] = msg

Count(msg) == Cardinality({ k \in DOMAIN stdout : stdout[k] = msg })

\* calls of this run that changed the portal
Mutations ==
    { k \in DOMAIN portal_calls :
        portal_calls[k].ok /\ portal_calls[k].op \in {"overwrite", "create"} }

\* items whose stored state differs from the state at the start of the run
Changed ==
    { i \in DOMAIN portal :
        i \notin DOMAIN portal_before \/ portal[i] # portal_before[i] }

AllowList == {"Brazil", "Peru", "Bolivia"}

Allowed(r) == r.COUNTRY \in AllowList

\* p is an interior point of the rectangle, stated on its own
InInterior(p, r) ==
    p[1] \in (r.x1 + 1)..(r.x2 - 1) /\ p[2] \in (r.y1 + 1)..(r.y2 - 1)

OnEdge(p, r) ==
    /\ p[1] \in r.x1..r.x2 /\ p[2] \in r.y1..r.y2
    /\ ~ InInterior(p, r)

RowsOf(i) == { k \in DOMAIN filtered_gdf : filtered_gdf[k].idx = i }

AfterFilter == pc \in {"filtered", "connected", "searched", "done"}

\* the data the publisher sends for the current filtered dataset
Published ==
    [k \in DOMAIN filtered_gdf |->
        [idx |-> filtered_gdf[k].idx, latitude |-> filtered_gdf[k].latitude,
         longitude |-> filtered_gdf[k].longitude,
         COUNTRY |-> filtered_gdf[k].COUNTRY,
         SHAPE |-> [x |-> filtered_gdf[k].longitude,
                    y |-> filtered_gdf[k].latitude, wkid |-> 4326]]]

----------------------------------------------------------------------------
(* Properties *)

\* C1: a run that ends successfully has performed exactly one portal
\* mutation (one overwrite or one create: the portal differs from its state
\* at the start of the run in at most that one item), and a run that failed
\* before the publisher started has performed none.
C1_OneMutationPerRun ==
    /\ pc = "done" =>
          /\ Cardinality(Mutations) = 1
          /\ Len(portal) \in {Len(portal_before), Len(portal_before) + 1}
          /\ Cardinality(Changed) <= 1
          /\ Len(portal) = Len(portal_before) + 1 => Changed = {Len(portal)}
    /\ (pc = "error" /\ ~ Printed(MsgPublishing)) =>
          /\ portal_calls = <<>>
          /\ portal = portal_before
    /\ Cardinality(Mutations) <= 1

\* C2: after a successful run the portal holds at most one feature layer
\* titled ITEM_TITLE, and after two successful runs in succession with the
\* same filtered dataset it holds exactly one, whose records are the
\* dataset's records.
C2_IdempotentOnTitle ==
    pc = "done" =>
        /\ Cardinality(TargetLayers(portal)) <= 1
        /\ (prev_run.ok /\ prev_run.data = filtered_gdf) =>
              /\ Cardinality(TargetLayers(portal)) = 1
              /\ \A i \in TargetLayers(portal) : portal[i].data = Published

\* C3: after the search the Overwrite branch is taken exactly when the portal
\* holds a feature layer titled exactly ITEM_TITLE, and the item to be
\* overwritten is such an item.
C3_BranchByExactTitle ==
    pc = "searched" =>
        /\ existing_items # <<>> <=> TargetLayers(portal) # {}
        /\ existing_items # <<>> => existing_items[1] \in TargetLayers(portal)

\* C4: once the boundary fetch has received a 4xx or 5xx status the run is
\* in its error outcome, the filter and the publisher were never started
\* and no portal call was made.
C4_BadStatusAborts ==
    status_code >= 400 =>
        /\ pc = "error"
        /\ ~ Printed(MsgFiltering)
        /\ ~ Printed(MsgPublishing)
        /\ countries_gdf = <<>>
        /\ filtered_gdf = <<>>
        /\ portal_calls = <<>>
        /\ portal = portal_before

C4_Witness ==
    /\ status_code = 500
    /\ pc = "error"
    /\ countries_geojson # <<>>
    /\ fire_gdf # <<>>

\* C5: every input fire record has at most one row in the filtered dataset.
C5_AtMostOnce ==
    AfterFilter => \A i \in DOMAIN fire_gdf : Cardinality(RowsOf(i)) <= 1

\* C6: the fire records that appear in the filtered dataset are exactly those
\* whose point is in the interior of at least one retained polygon, and each
\* row carries the point of the record it comes from.
C6_ExactlyInterior ==
    AfterFilter =>
        /\ \A i \in DOMAIN fire_gdf :
              RowsOf(i) # {} <=>
                 \E c \in DOMAIN countries_gdf :
                    InInterior(fire_gdf[i].geometry, countries_gdf[c].geometry)
        /\ \A k \in DOMAIN filtered_gdf :
              /\ filtered_gdf[k].idx \in DOMAIN fire_gdf
              /\ filtered_gdf[k].geometry
                    = fire_gdf[filtered_gdf[k].idx].geometry

\* a point inside a polygon is kept while one on an edge and one outside
\* are dropped
C6_Witness ==
    /\ AfterFilter
    /\ Len(fire_gdf) = 2
    /\ countries_gdf # <<>>
    /\ RowsOf(1) # {}
    /\ RowsOf(2) = {}
    /\ \E c \in DOMAIN countries_gdf :
          OnEdge(fire_gdf[2].geometry, countries_gdf[c].geometry)

\* C7: when no boundary record matches the allow-list the boundary fetch
\* still completes, the filtered dataset is empty, and a run that completes
\* has made its one overwrite or create with an empty layer.
C7_NoCountryMatches ==
    /\ (pc = "countries" /\ \A k \in DOMAIN countries_geojson :
                               ~ Allowed(countries_geojson[k]))
          => countries_gdf = <<>>
    /\ (AfterFilter /\ countries_gdf = <<>>) => filtered_gdf = <<>>
    /\ (pc = "done" /\ countries_gdf = <<>>) =>
          /\ Cardinality(Mutations) = 1
          /\ \A k \in Mutations : portal[portal_calls[k].item].data = <<>>

\* C8: the collection the boundary fetcher returns is the input collection
\* restricted to the records named Brazil, Peru or Bolivia, in input order.
C8_AllowListExact ==
    pc \in {"countries", "filtered"} =>
        countries_gdf = SelectSeq(countries_geojson, Allowed)

C8_Witness ==
    /\ pc = "countries"
    /\ Len(countries_geojson) = 2
    /\ Len(countries_gdf) = 1
    /\ countries_gdf[1].COUNTRY = "Bolivia"
    /\ countries_geojson[1].COUNTRY = "brazil"

StageStarts == <<MsgFetchFire, MsgFetchCountries, MsgFiltering, MsgPublishing>>

IsStageStart(m) == m \in Range(StageStarts)

C9_Order ==
    /\ \E n \in 0..4 : SelectSeq(stdout, IsStageStart) = SubSeq(StageStarts, 1, n)
    /\ Count(MsgError) + Count(MsgSuccess) <= 1
    /\ \A k \in DOMAIN stdout :
          stdout[k] \in {MsgError, MsgSuccess} => k = Len(stdout)
    /\ pc = "error" <=> Printed(MsgError)
    /\ pc = "done" <=> Printed(MsgSuccess)
    /\ pc = "done" => SelectSeq(stdout, IsStageStart) = StageStarts

\* C9: the stages start in the order fire fetch, boundary fetch, filter,
\* publish, each at most once; nothing is printed after the error message or
\* the success message, a run prints at most one of them, and every run ends
\* with one of them printed.
C9_SequentialNoRetry ==
    /\ [] C9_Order
    /\ [] (pc = "start" => <> (pc \in {"done", "error"}))

C9_Witness ==
    /\ pc = "error"
    /\ SelectSeq(stdout, IsStageStart) = SubSeq(StageStarts, 1, 3)
    /\ stdout[Len(stdout)] = MsgError
    /\ run = 2

\* C10: a run whose search returned items issues its overwrite on the first
\* returned item and on no other: the portal gains no item, every other item
\* is unchanged, and the first returned item keeps its title and type and
\* holds either the published data or, when the call had no effect, the data
\* it held before.
C10_OnlyFirstHit ==
    (pc = "done" /\ existing_items # <<>>) =>
        /\ Len(portal) = Len(portal_before)
        /\ \A k \in DOMAIN portal_calls :
              /\ portal_calls[k].op # "create"
              /\ portal_calls[k].op = "overwrite" =>
                    portal_calls[k].item = existing_items[1]
        /\ \A i \in DOMAIN portal :
              IF i = existing_items[1]
                THEN /\ portal[i].title = portal_before[i].title
                     /\ portal[i].type = portal_before[i].type
                     /\ portal[i].data \in {Published, portal_before[i].data}
                     /\ Mutations # {} => portal[i].data = Published
                ELSE portal[i] = portal_before[i]

C10_Witness ==
    /\ pc = "done"
    /\ Len(existing_items) = 2
    /\ existing_items[1] = 2
    /\ \E k \in DOMAIN portal_calls :
          portal_calls[k].op = "overwrite" /\ portal_calls[k].item = 2
    /\ portal[1] = portal_before[1]
    /\ filtered_gdf # <<>>

====
